---------------------------- MODULE Spec2Model ----------------------------
(***************************************************************************)
(* PixelCube: the non-blocking four-face scheduler of PixelCube.ino.       *)
(* One loop() iteration is one atomic step: it reads the millisecond clock *)
(* and the motion sensor, runs the hysteresis, starts/advances/stops the   *)
(* ghost blink, rotates the colors and steps the body animation.           *)
(*                                                                         *)
(* The clock and every deadline are uint32_t.  A 32-bit word is held as a  *)
(* pair <<hi, lo>> of 16-bit halves, so that sums and differences wrap     *)
(* modulo 2^32 exactly as on the target.                                   *)
(***************************************************************************)
EXTENDS Integers, Sequences, FiniteSets, TLC

----------------------------------------------------------------------------
(* Program constants *)

FACES == 4
NUM_LEDS_PER_FACE == 256
BODY_PERIOD_MS == 100
BODY_REPS_PER_PAIR == 5
BLINK_PERIOD_MS == 100
BLINK_STEPS_TOTAL == 18
BLINK_DURATION_MS == 3000
MOTION_TH == 100
COLOR_ROTATE_IDLE_MS == 30000

FRONT == 0
RIGHT == 1
BACK == 2
LEFT == 3

----------------------------------------------------------------------------
(* Bounds of the model *)

\* the scheduler runs until this much time has passed since setup()
MaxTime == 33000
\* the millisecond-by-millisecond scenario runs this long
MaxMs == 3200
\* number of sensor samples followed in the debouncer runs
MaxSamples == 5
\* largest configured on-threshold (the ADC delivers 0..1023)
MaxThOn == 1023
\* time the threshold runs last
MaxThTime == 2
\* number of times one deadline is tested
MaxTests == 3
\* number of rotations applied in a row to one color assignment
MaxRotations == 4
\* number of frames drawn in a row into one buffer
MaxDraws == 2

\* clock advance between two reads of millis() by consecutive loop() calls
Deltas == {0, 1500, 30000}
\* values analogRead() returns, at the two thresholds of MOTION_TH
Readings == {67, 100}
\* values analogRead() returns, around and between the two thresholds
SensorReadings == {50, 66, 67, 68, 80, 99, 100}
\* the two ends of the ADC range
ThReadings == {0, 1023}
\* times at which the sensor may rise in the millisecond scenario
RiseTimesMs == {0, 1500}
\* clock values (unwrapped) at which a deadline is set: 0, 2^31 - 1,
\* 2^32 - 30000, 2^32 - 3000, 2^32 - 100
SetTimes == {<<0, 0>>, <<32767, 65535>>, <<65535, 35536>>, <<65535, 62536>>,
             <<65535, 65436>>}
\* how far ahead a deadline is set: the offsets of loop(), and 2^31 - 1
Aheads == {0, BLINK_PERIOD_MS, BLINK_DURATION_MS, COLOR_ROTATE_IDLE_MS, 2147483647}
\* time passing before a deadline is tested (again)
DueDeltas == {1, 99, 2900, 27000, 1073741824, 2147483647}
\* colors a face may be assigned
Palette == {"Red", "Magenta", "Orange", "Cyan"}
\* index tables handed to drawFrame(): the one-entry table dummy, and two
\* tables that overlap it and each other and hold words beyond the buffer
IdxLists == {<<0>>, <<0, 1, 256, 255>>, <<1, 300, 2, 65535, 255>>}
\* colors handed to drawFrame()
DrawColors == {"Blue", "Red"}
\* what the buffer may hold before the first frame is drawn
StaleBuffers ==
  {[j \in 0..(NUM_LEDS_PER_FACE - 1) |-> "Black"],
   [j \in 0..(NUM_LEDS_PER_FACE - 1) |-> "White"],
   [j \in 0..(NUM_LEDS_PER_FACE - 1) |-> IF j % 2 = 0 THEN "Blue" ELSE "Black"]}

----------------------------------------------------------------------------
(* uint32_t arithmetic *)

Half == 65536

U32(n) == <<n \div Half, n % Half>>

\* a + k modulo 2^32, for a constant k >= 0
Add32(a, k) ==
  LET lo == a[2] + (k % Half)
      hi == a[1] + (k \div Half) + (lo \div Half)
  IN  <<hi % Half, lo % Half>>

\* a - b modulo 2^32
Sub32(a, b) ==
  LET lo == a[2] - b[2]
      borrow == IF lo < 0 THEN 1 ELSE 0
      hi == a[1] - b[1] - borrow
  IN  <<(hi + Half) % Half, (lo + Half) % Half>>

\* the deadline test with an unsigned comparison: now >= deadline
IsDueUnsigned(now, deadline) ==
  now[1] > deadline[1] \/ (now[1] = deadline[1] /\ now[2] >= deadline[2])

\* (int32_t)(now - deadline) >= 0 : the sign bit of the difference is clear
IsDue(now, deadline) == Sub32(now, deadline)[1] < 32768

----------------------------------------------------------------------------
(* Logical (unwrapped) time, used only to state properties: <<hi, lo>> with *)
(* lo < 2^16 and hi unbounded; the clock shows it modulo 2^32.              *)

LAdd(t, k) ==
  LET lo == t[2] + (k % Half)
  IN  <<t[1] + (k \div Half) + (lo \div Half), lo % Half>>

LGeq(a, b) == a[1] > b[1] \/ (a[1] = b[1] /\ a[2] >= b[2])

\* t + 2^31
Far(t) == <<t[1] + 32768, t[2]>>

Wrap(t) == <<t[1] % Half, t[2]>>

----------------------------------------------------------------------------
(* Presence detection with hysteresis *)

Max(a, b) == IF a >= b THEN a ELSE b

\* HYST without the minimum gap of 4 ADC counts
HystNoMinimum(thOn) == thOn \div 3

HystOf(thOn) == Max(4, thOn \div 3)

ThOffOf(thOn) == Max(0, thOn - HystOf(thOn))

\* the hysteresis with the ON comparison strict
HysteresisStrict(p, motionVal, thOn, thOff) ==
  IF ~p /\ motionVal > thOn THEN TRUE
  ELSE IF p /\ motionVal <= thOff THEN FALSE
  ELSE p

\* the hysteresis with the OFF comparison strict
HysteresisOffStrict(p, motionVal, thOn, thOff) ==
  IF ~p /\ motionVal >= thOn THEN TRUE
  ELSE IF p /\ motionVal < thOff THEN FALSE
  ELSE p

Hysteresis(p, motionVal, thOn, thOff) ==
  IF ~p /\ motionVal >= thOn THEN TRUE
  ELSE IF p /\ motionVal <= thOff THEN FALSE
  ELSE p

\* the edge test taken on either edge
AnyEdge(wasPresent, p) == wasPresent # p

\* the condition of the rising-edge block
RisingEdge(wasPresent, p) == ~wasPresent /\ p

----------------------------------------------------------------------------
(* Colors and rendering *)

InitColors == <<"Red", "Magenta", "Orange", "Cyan">>

\* bodyColors is indexed FRONT..LEFT = 0..3; the sequence holds face f at f+1

\* the shifting loop run upward, for i = 1 .. FACES-1: c[i] = c[i-1]
RECURSIVE ShiftUpward(_, _)
ShiftUpward(c, i) ==
  IF i < FACES THEN ShiftUpward([c EXCEPT ![i + 1] = c[i]], i + 1) ELSE c

\* rotateColors() with its loop run upward
rotateColorsUpward(c) ==
  LET tmp == c[FACES]
  IN  [ShiftUpward(c, 1) EXCEPT ![1] = tmp]

\* the loop of rotateColors(), for i = FACES-1 down to 1: c[i] = c[i-1]
RECURSIVE ShiftLoop(_, _)
ShiftLoop(c, i) ==
  IF i > 0 THEN ShiftLoop([c EXCEPT ![i + 1] = c[i]], i - 1) ELSE c

rotateColors(c) ==
  LET tmp == c[FACES]
  IN  [ShiftLoop(c, FACES - 1) EXCEPT ![1] = tmp]

\* the ghost frame pushed to BACK before LEFT
renderBlinkFrameBackFirst(useAlt, act) ==
  << [op |-> "draw", kind |-> "ghost",
      frame |-> IF useAlt THEN "dead_fantom_2" ELSE "dead_fantom_1",
      color |-> IF useAlt THEN "White" ELSE "Blue", active |-> act],
     [op |-> "show", face |-> FRONT],
     [op |-> "show", face |-> RIGHT],
     [op |-> "show", face |-> BACK],
     [op |-> "show", face |-> LEFT] >>

\* one ghost frame drawn into the buffer and pushed to the four faces;
\* act is blink.active at the time of the call
renderBlinkFrameAllFaces(useAlt, act) ==
  << [op |-> "draw", kind |-> "ghost",
      frame |-> IF useAlt THEN "dead_fantom_2" ELSE "dead_fantom_1",
      color |-> IF useAlt THEN "White" ELSE "Blue", active |-> act],
     [op |-> "show", face |-> FRONT],
     [op |-> "show", face |-> RIGHT],
     [op |-> "show", face |-> LEFT],
     [op |-> "show", face |-> BACK] >>

BodyFrameName(g) ==
  CASE g = 0 -> "body_1" [] g = 1 -> "body_2" [] g = 2 -> "body_3" [] OTHER -> "body_4"

\* a body frame drawn for every face with the color of FRONT
renderBodyFrameSharedColor(f, globalFrameIndex, colors, act) ==
  << [op |-> "draw", kind |-> "body", frame |-> BodyFrameName(globalFrameIndex),
      color |-> colors[FRONT + 1], active |-> act],
     [op |-> "show", face |-> f] >>

\* one body frame drawn with the face's color and pushed to that face
renderBodyFrameForFace(f, globalFrameIndex, colors, act) ==
  << [op |-> "draw", kind |-> "body", frame |-> BodyFrameName(globalFrameIndex),
      color |-> colors[f + 1], active |-> act],
     [op |-> "show", face |-> f] >>

----------------------------------------------------------------------------
(* The blocks of loop() *)

\* a rising-edge block that leaves a running blink alone
StartBlinkUnlessActive(b, now) ==
  IF b.active THEN b
  ELSE [active |-> TRUE, step |-> 0, nextAt |-> now,
        stopAt |-> Add32(now, BLINK_DURATION_MS)]

\* a rising-edge block that leaves the idle rotation timer alone
KeepIdleTimer(ncr, now) == ncr

\* a rising-edge block that pushes the idle rotation out by the blink duration
ResetIdleTimerShort(ncr, now) == Add32(now, BLINK_DURATION_MS)

\* the idle timer part of the rising-edge block
ResetIdleTimer(ncr, now) == Add32(now, COLOR_ROTATE_IDLE_MS)

\* the ghost step advanced in a cycle of odd length
AdvanceStepOddCycle(step) == (step + 1) % (BLINK_STEPS_TOTAL - 1)

\* "advance ghost step and wrap at BLINK_STEPS_TOTAL"
AdvanceStep(step) == (step + 1) % BLINK_STEPS_TOTAL

\* a rising-edge block that schedules the first ghost frame one period later
StartBlinkDeferred(b, now) ==
  [active |-> TRUE, step |-> 0, nextAt |-> Add32(now, BLINK_PERIOD_MS),
   stopAt |-> Add32(now, BLINK_DURATION_MS)]

\* the blink part of the rising-edge block
StartBlink(b, now) ==
  [active |-> TRUE, step |-> 0, nextAt |-> now,
   stopAt |-> Add32(now, BLINK_DURATION_MS)]

\* a stop check that neither returns nor clears the flag
StopCheckFallThrough(b, now) == [return |-> FALSE, blink |-> b]

\* a stop check that keeps returning while the blink is active
StopCheckNeverStops(b, now) == [return |-> b.active, blink |-> b]

\* a stop check that clears the flag and returns
StopCheckStopsAndReturns(b, now) ==
  IF ~b.active THEN [return |-> FALSE, blink |-> b]
  ELSE IF ~IsDue(now, b.stopAt) THEN [return |-> TRUE, blink |-> b]
  ELSE [return |-> TRUE, blink |-> [b EXCEPT !.active = FALSE]]

\* "Stop after BLINK_DURATION_MS": whether loop() returns, and the blink state
StopCheck(b, now) ==
  IF ~b.active THEN [return |-> FALSE, blink |-> b]
  ELSE IF ~IsDue(now, b.stopAt) THEN [return |-> TRUE, blink |-> b]
  ELSE [return |-> FALSE, blink |-> [b EXCEPT !.active = FALSE]]

\* the body block with the pair flipped one round trip late
BodyStepLate(b, ls) ==
  LET s == 1 - b.stepInPair
      trip == s = 0 /\ ls = 1
      reps1 == IF trip THEN b.repsInPair + 1 ELSE b.repsInPair
      flip == trip /\ reps1 > BODY_REPS_PER_PAIR
  IN  [pair |-> IF flip THEN 1 - b.pair ELSE b.pair,
       stepInPair |-> s,
       repsInPair |-> IF flip THEN 0 ELSE reps1,
       nextAt |-> b.nextAt]

\* the body animation block of loop(), taken when body.nextAt is due
BodyStep(b, ls) ==
  LET s == 1 - b.stepInPair
      trip == s = 0 /\ ls = 1
      reps1 == IF trip THEN b.repsInPair + 1 ELSE b.repsInPair
      flip == trip /\ reps1 >= BODY_REPS_PER_PAIR
  IN  [pair |-> IF flip THEN 1 - b.pair ELSE b.pair,
       stepInPair |-> s,
       repsInPair |-> IF flip THEN 0 ELSE reps1,
       nextAt |-> b.nextAt]

GlobalFrameIndex(b) ==
  IF b.pair = 0 THEN (IF b.stepInPair = 0 THEN 0 ELSE 1)
  ELSE (IF b.stepInPair = 0 THEN 2 ELSE 3)

----------------------------------------------------------------------------
(* The shared pixel buffer and its painter.  The buffer is a function from  *)
(* the positions written so far to colors: it starts on 0..255, and a store *)
(* past the end of the array shows as a position outside that range.        *)

LedRange == 0..(NUM_LEDS_PER_FACE - 1)

\* fill_solid(leds, n, c)
fill_solid(leds, n, c) == [j \in DOMAIN leds |-> IF j < n THEN c ELSE leds[j]]

\* leds[k] = c
Store(leds, k, c) ==
  IF k \in DOMAIN leds THEN [leds EXCEPT ![k] = c]
  ELSE [j \in (DOMAIN leds) \cup {k} |-> IF j = k THEN c ELSE leds[j]]

\* a bound check that lets every 16-bit word through
InRangeWord(k) == k < Half

\* k < NUM_LEDS_PER_FACE
InRange(k) == k < NUM_LEDS_PER_FACE

\* the loop of colorList(), from entry i of the table on
RECURSIVE colorListFrom(_, _, _, _)
colorListFrom(leds, idx, c, i) ==
  IF i > Len(idx) THEN leds
  ELSE LET k == idx[i]
       IN  colorListFrom(IF InRange(k) THEN Store(leds, k, c) ELSE leds,
                         idx, c, i + 1)

colorList(leds, idx, c) == colorListFrom(leds, idx, c, 1)

\* drawFrame() applying the three tables in the order C, B, A
drawFrameFirstWins(leds, A, cA, B, cB, C, cC) ==
  colorList(colorList(colorList(fill_solid(leds, NUM_LEDS_PER_FACE, "Black"),
                                C, cC), B, cB), A, cA)

\* drawFrame() without the fill_solid()
drawFrameNoFill(leds, A, cA, B, cB, C, cC) ==
  colorList(colorList(colorList(leds, A, cA), B, cB), C, cC)

drawFrame(leds, A, cA, B, cB, C, cC) ==
  colorList(colorList(colorList(fill_solid(leds, NUM_LEDS_PER_FACE, "Black"),
                                A, cA), B, cB), C, cC)

----------------------------------------------------------------------------
(* The interrupt-driven sketch: positions of the main program *)

\* iterations of each of the two for loops of loop()
LoopReps == 5
\* iterations of the for loop of ghostBlink()
GhostReps == 9
\* smartDelay(100)
FrameDelayMs == 100

\* loop() draws this many frames: two loops of LoopReps iterations, two frames each
SlotsPerLoop == 4 * LoopReps

\* the body frame drawn in a slot: 1, 2 in the first loop and 3, 4 in the second
BodyNo(slot) == IF slot < 2 * LoopReps THEN 1 + (slot % 2) ELSE 3 + (slot % 2)

\* the faces of a body frame in the order of loop(), and their colors
BodyFaceOrder == <<RIGHT, LEFT, BACK, FRONT>>
BodyFaceColor == <<"Magenta", "Cyan", "Orange", "Red">>

\* the faces of a ghost frame in the order of ghostBlink()
GhostFaceOrder == <<FRONT, RIGHT, LEFT, BACK>>

BodyFrame(slot, face) ==
  [kind |-> "body", n |-> BodyNo(slot), color |-> BodyFaceColor[face + 1]]

GhostFrame(half) ==
  [kind |-> "ghost", n |-> half + 1, color |-> IF half = 0 THEN "Blue" ELSE "White"]

BlackFrame == [kind |-> "black", n |-> 0, color |-> "Black"]

\* the first statement of loop()
Start == [at |-> "draw", slot |-> 0, face |-> 0, ms |-> 0, gi |-> 0, half |-> 0,
          k |-> 0, ret |-> "none"]

SmartDelayLabels == {"sd_test", "sd_flag", "sd_delay"}
HandlePirLabels == {"hp_test", "hp_clear", "hp_delay"}
GhostBlinkLabels == {"gb_draw", "gb_show", "gb_delay"}
LoopLabels == {"draw", "show", "check", "after"}

----------------------------------------------------------------------------
VARIABLES
  motionTh,           \* the configured MOTION_TH
  clock,              \* millis(): the value the next loop() reads
  presence,           \* presence latch
  blink,              \* BlinkState
  body,               \* BodyState
  lastStep,           \* static uint8_t lastStep of loop()
  bodyColors,         \* per-face colors FRONT, RIGHT, BACK, LEFT
  nextColorRotateAt,  \* idle rotation deadline
  tick,               \* what the last loop() iteration read and did
  elapsed,            \* logical time since setup() at the next read of millis()
  alertFrames,        \* ghost frames rendered since the last rising edge
  risings,            \* rising edges so far, saturating at 2
  ticksInPair,        \* body ticks since the pair selector last flipped
  lastRot,            \* logical times of the last rotation of either cause, or -1
  lastGhost,          \* the ghost frame last drawn while the blink is active
  trace,              \* the samples of the debouncer runs
  dl,                 \* one deadline and its last test
  rot,                \* one color assignment and its last rotation
  paint,              \* one buffer and the last frame drawn into it
  pirFlag,            \* volatile bool pirFlag of the interrupt-driven sketch
  pc,                 \* position of its main program
  drawn,              \* the frame its buffer holds
  shown,              \* the frame each of its faces shows
  isrRuns             \* parity of the number of runs of its interrupt handler

vars == <<motionTh, clock, presence, blink, body, lastStep, bodyColors,
          nextColorRotateAt, tick, elapsed, alertFrames, risings, ticksInPair,
          lastRot, lastGhost, trace, dl, rot, paint, pirFlag, pc, drawn, shown,
          isrRuns>>

\* the variables of the interrupt-driven sketch
sketch1 == <<pirFlag, pc, drawn, shown, isrRuns>>

\* the variables of loop() and setup()
sched == <<motionTh, clock, presence, blink, body, lastStep, bodyColors,
           nextColorRotateAt, tick, elapsed, alertFrames, risings, ticksInPair,
           lastRot, lastGhost>>

NoTick == [motionVal |-> 0, thOn |-> 0, thOff |-> 0, wasPresent |-> FALSE,
           wasActive |-> FALSE, rising |-> FALSE, ran |-> FALSE,
           idleRotated |-> FALSE, ev |-> <<>>]

NoDeadline == [setAt |-> <<0, 0>>, ahead |-> 0, now |-> <<0, 0>>, tests |-> 0,
               result |-> FALSE]

NoRotation == [colors |-> InitColors, before |-> InitColors, n |-> 0]

NoPaint == [leds |-> [j \in LedRange |-> "Black"],
            A |-> <<0>>, cA |-> "Black", B |-> <<0>>, cB |-> "Black",
            C |-> <<0>>, cC |-> "Black", n |-> 0, stale |-> FALSE, same |-> FALSE]

\* setup() of the interrupt-driven sketch
Setup1 ==
  /\ pirFlag = FALSE
  /\ pc = Start
  /\ drawn = BlackFrame
  /\ shown = [f \in 0..(FACES - 1) |-> BlackFrame]
  /\ isrRuns = 0

\* setup(), entered when millis() shows t0
Setup(t0) ==
  /\ clock = t0
  /\ presence = FALSE
  /\ blink = [active |-> FALSE, step |-> 0, nextAt |-> U32(0), stopAt |-> U32(0)]
  /\ body = [pair |-> 0, stepInPair |-> 0, repsInPair |-> 0,
             nextAt |-> Add32(t0, BODY_PERIOD_MS)]
  /\ lastStep = 1
  /\ bodyColors = InitColors
  /\ nextColorRotateAt = Add32(t0, COLOR_ROTATE_IDLE_MS)
  /\ tick = NoTick
  /\ elapsed = 0
  /\ alertFrames = 0
  /\ risings = 0
  /\ ticksInPair = 0
  /\ lastRot = [riseAt |-> -1, idleAt |-> -1]
  /\ lastGhost = "none"

Init ==
  /\ motionTh = MOTION_TH
  /\ Setup(U32(0))
  /\ trace = <<>>
  /\ dl = NoDeadline
  /\ rot = NoRotation
  /\ paint = NoPaint
  /\ Setup1

\* one iteration of loop(): motionVal is the sensor reading, d the time that
\* passes before the next iteration reads millis()
Loop(d, motionVal) ==
  LET now == clock
      TH_ON == motionTh
      TH_OFF == ThOffOf(TH_ON)
      wasPresent == presence
      p1 == Hysteresis(presence, motionVal, TH_ON, TH_OFF)
      rising == RisingEdge(wasPresent, p1)
      colors1 == IF rising THEN rotateColors(bodyColors) ELSE bodyColors
      blink1 == IF rising THEN StartBlink(blink, now) ELSE blink
      ncr1 == IF rising THEN ResetIdleTimer(nextColorRotateAt, now)
              ELSE nextColorRotateAt
      blinkDue == blink1.active /\ IsDue(now, blink1.nextAt)
      useAlt == blink1.step % 2 = 1
      ev1 == IF blinkDue THEN renderBlinkFrameAllFaces(useAlt, blink1.active) ELSE <<>>
      blink2 == IF blinkDue
                THEN [blink1 EXCEPT !.step = AdvanceStep(blink1.step),
                                    !.nextAt = Add32(now, BLINK_PERIOD_MS)]
                ELSE blink1
      stop == StopCheck(blink2, now)
      blink3 == stop.blink
      idleDue == ~stop.return /\ IsDue(now, ncr1)
      colors2 == IF idleDue THEN rotateColors(colors1) ELSE colors1
      ncr2 == IF idleDue THEN Add32(now, COLOR_ROTATE_IDLE_MS) ELSE ncr1
      bodyDue == ~stop.return /\ IsDue(now, body.nextAt)
      body1 == BodyStep(body, lastStep)
      g == GlobalFrameIndex(body1)
      ev2 == IF bodyDue
             THEN renderBodyFrameForFace(RIGHT, g, colors2, blink3.active)
                  \o renderBodyFrameForFace(LEFT, g, colors2, blink3.active)
                  \o renderBodyFrameForFace(BACK, g, colors2, blink3.active)
                  \o renderBodyFrameForFace(FRONT, g, colors2, blink3.active)
             ELSE <<>>
  IN  /\ presence' = p1
      /\ blink' = blink3
      /\ bodyColors' = colors2
      /\ nextColorRotateAt' = ncr2
      /\ body' = IF bodyDue THEN [body1 EXCEPT !.nextAt = Add32(now, BODY_PERIOD_MS)]
                 ELSE body
      /\ lastStep' = IF bodyDue THEN body1.stepInPair ELSE lastStep
      /\ tick' = [motionVal |-> motionVal, thOn |-> TH_ON, thOff |-> TH_OFF,
                  wasPresent |-> wasPresent, wasActive |-> blink.active,
                  rising |-> rising, ran |-> TRUE,
                  idleRotated |-> idleDue, ev |-> ev1 \o ev2]
      /\ alertFrames' = (IF rising THEN 0 ELSE alertFrames) + (IF blinkDue THEN 1 ELSE 0)
      /\ risings' = IF rising /\ risings < 2 THEN risings + 1 ELSE risings
      /\ ticksInPair' = IF ~bodyDue THEN ticksInPair
                        ELSE IF body1.pair # body.pair THEN 0 ELSE ticksInPair + 1
      /\ clock' = Add32(clock, d)
      /\ elapsed' = elapsed + d
      /\ lastRot' = [riseAt |-> IF rising THEN elapsed ELSE lastRot.riseAt,
                     idleAt |-> IF idleDue THEN elapsed ELSE lastRot.idleAt]
      /\ lastGhost' = IF ~blink3.active THEN "none"
                      ELSE IF blinkDue
                           THEN (IF useAlt THEN "dead_fantom_2" ELSE "dead_fantom_1")
                           ELSE lastGhost
      /\ UNCHANGED motionTh

----------------------------------------------------------------------------
(* The scheduler under arbitrary clock values and sensor readings *)

Next ==
  \E d \in Deltas, motionVal \in Readings :
    /\ elapsed + d <= MaxTime
    /\ Loop(d, motionVal)
    /\ UNCHANGED <<trace, dl, rot, paint, sketch1>>

Spec == Init /\ [][Next]_vars

----------------------------------------------------------------------------
(* The scheduler with loop() run at every millisecond; the sensor may rise *)
(* at the times of RiseTimesMs only                                        *)

NextMs ==
  \E motionVal \in Readings :
    /\ elapsed + 1 <= MaxMs
    /\ (~presence /\ motionVal >= motionTh) => elapsed \in RiseTimesMs
    /\ Loop(1, motionVal)
    /\ UNCHANGED <<trace, dl, rot, paint, sketch1>>

SpecMs == Init /\ [][NextMs]_vars

----------------------------------------------------------------------------
(* The debouncer followed over MaxSamples samples *)

NextSensor ==
  \E motionVal \in SensorReadings :
    /\ Len(trace) < MaxSamples
    /\ Loop(1, motionVal)
    /\ trace' = Append(trace, [motionVal |-> motionVal, presence |-> presence',
                               rising |-> tick'.rising,
                               falling |-> presence /\ ~presence'])
    /\ UNCHANGED <<dl, rot, paint, sketch1>>

SpecSensor == Init /\ [][NextSensor]_vars

----------------------------------------------------------------------------
(* The thresholds derived from every configured MOTION_TH *)

InitTh ==
  /\ motionTh \in 1..MaxThOn
  /\ Setup(U32(0))
  /\ trace = <<>>
  /\ dl = NoDeadline
  /\ rot = NoRotation
  /\ paint = NoPaint
  /\ Setup1

NextTh ==
  \E motionVal \in ThReadings :
    /\ elapsed + 1 <= MaxThTime
    /\ Loop(1, motionVal)
    /\ UNCHANGED <<trace, dl, rot, paint, sketch1>>

SpecTh == InitTh /\ [][NextTh]_vars

----------------------------------------------------------------------------
(* The deadline test on its own: a deadline is set dl.ahead after the clock *)
(* value dl.setAt and tested as time passes                                 *)

InitDue ==
  /\ motionTh = MOTION_TH
  /\ Setup(U32(0))
  /\ trace = <<>>
  /\ rot = NoRotation
  /\ paint = NoPaint
  /\ Setup1
  /\ \E s \in SetTimes, a \in Aheads :
       dl = [setAt |-> s, ahead |-> a, now |-> s, tests |-> 0, result |-> FALSE]

TestDeadline(d) ==
  LET t == LAdd(dl.now, d)
      deadline == Add32(Wrap(dl.setAt), dl.ahead)
  IN  /\ dl.tests < MaxTests
      /\ dl' = [dl EXCEPT !.now = t, !.tests = dl.tests + 1,
                          !.result = IsDue(Wrap(t), deadline)]
      /\ UNCHANGED <<sched, trace, rot, paint, sketch1>>

NextDue == \E d \in DueDeltas : TestDeadline(d)

SpecDue == InitDue /\ [][NextDue]_vars

----------------------------------------------------------------------------
(* rotateColors() on its own, applied to every assignment of the palette *)

InitRot ==
  /\ motionTh = MOTION_TH
  /\ Setup(U32(0))
  /\ trace = <<>>
  /\ dl = NoDeadline
  /\ paint = NoPaint
  /\ Setup1
  /\ \E c \in [1..FACES -> Palette] : rot = [colors |-> c, before |-> c, n |-> 0]

Rotate ==
  /\ rot.n < MaxRotations
  /\ rot' = [colors |-> rotateColors(rot.colors), before |-> rot.colors,
             n |-> rot.n + 1]
  /\ UNCHANGED <<sched, trace, dl, paint, sketch1>>

SpecRot == InitRot /\ [][Rotate]_vars

----------------------------------------------------------------------------
(* drawFrame() on its own: frames drawn one after the other into one buffer *)

InitDraw ==
  /\ motionTh = MOTION_TH
  /\ Setup(U32(0))
  /\ trace = <<>>
  /\ dl = NoDeadline
  /\ rot = NoRotation
  /\ Setup1
  /\ \E b \in StaleBuffers : paint = [NoPaint EXCEPT !.leds = b]

Range(idx) == {idx[i] : i \in DOMAIN idx}

Draw(A, cA, B, cB, C, cC) ==
  /\ paint.n < MaxDraws
  /\ paint' = [leds |-> drawFrame(paint.leds, A, cA, B, cB, C, cC),
               A |-> A, cA |-> cA, B |-> B, cB |-> cB, C |-> C, cC |-> cC,
               n |-> paint.n + 1,
               stale |-> \/ paint.stale
                         \/ \E j \in LedRange \ (Range(A) \cup Range(B) \cup Range(C)) :
                              paint.leds[j] # "Black",
               same |-> /\ paint.n > 0
                        /\ <<A, cA, B, cB, C, cC>>
                             = <<paint.A, paint.cA, paint.B, paint.cB, paint.C, paint.cC>>]
  /\ UNCHANGED <<sched, trace, dl, rot, sketch1>>

NextDraw ==
  \E A \in IdxLists, B \in IdxLists, C \in IdxLists,
     cA \in DrawColors, cB \in DrawColors, cC \in DrawColors :
    Draw(A, cA, B, cB, C, cC)

SpecDraw == InitDraw /\ [][NextDraw]_vars

----------------------------------------------------------------------------
(* The interrupt-driven sketch.  The main program runs one statement at a   *)
(* time; the handler runs between any two of them.                          *)

InitIsr ==
  /\ motionTh = MOTION_TH
  /\ Setup(U32(0))
  /\ trace = <<>>
  /\ dl = NoDeadline
  /\ rot = NoRotation
  /\ paint = NoPaint
  /\ Setup1

\* an interrupt handler that draws and pushes the ghost itself
onPirRiseRendering ==
  /\ pirFlag' = TRUE
  /\ isrRuns' = 1 - isrRuns
  /\ drawn' = GhostFrame(0)
  /\ shown' = [f \in 0..(FACES - 1) |-> GhostFrame(0)]
  /\ UNCHANGED <<pc, sched, trace, dl, rot, paint>>

onPirRise ==
  /\ pirFlag' = TRUE
  /\ isrRuns' = 1 - isrRuns
  /\ UNCHANGED <<pc, drawn, shown, sched, trace, dl, rot, paint>>

\* where control goes when handlePir() returns: to the test after the call,
\* or out of loop(), which is then entered again
ReturnFromHandlePir ==
  IF pc.ret = "check" THEN [pc EXCEPT !.at = "check", !.ret = "none"]
  ELSE Start

\* the statements of loop(), the calls of smartDelay() and handlePir() apart
loopBlocking ==
  /\ \/ /\ pc.at = "draw"
        /\ drawn' = BodyFrame(pc.slot, pc.face)
        /\ pc' = [pc EXCEPT !.at = "show"]
        /\ UNCHANGED <<pirFlag, shown>>
     \/ /\ pc.at = "show"
        /\ shown' = [shown EXCEPT ![BodyFaceOrder[pc.face + 1]] = drawn]
        /\ pc' = [pc EXCEPT !.at = "hp_test", !.ret = "check"]
        /\ UNCHANGED <<pirFlag, drawn>>
     \/ /\ pc.at = "check"
        /\ pc' = IF pirFlag THEN Start
                 ELSE IF pc.face < FACES - 1
                      THEN [pc EXCEPT !.at = "draw", !.face = pc.face + 1]
                      ELSE [pc EXCEPT !.at = "sd_test", !.ms = 0]
        /\ UNCHANGED <<pirFlag, drawn, shown>>
     \/ /\ pc.at = "after"
        /\ pc' = IF pirFlag
                 THEN [pc EXCEPT !.at = "hp_test", !.ret = "return", !.ms = 0]
                 ELSE [Start EXCEPT !.slot = (pc.slot + 1) % SlotsPerLoop]
        /\ UNCHANGED <<pirFlag, drawn, shown>>
  /\ UNCHANGED <<isrRuns, sched, trace, dl, rot, paint>>

\* smartDelay() without the test of pirFlag
smartDelayBlocking ==
  /\ \/ /\ pc.at = "sd_test"
        /\ pc' = IF pc.ms < FrameDelayMs THEN [pc EXCEPT !.at = "sd_flag"]
                 ELSE [pc EXCEPT !.at = "after"]
     \/ /\ pc.at = "sd_flag"
        /\ pc' = [pc EXCEPT !.at = "sd_delay"]
     \/ /\ pc.at = "sd_delay"
        /\ pc' = [pc EXCEPT !.at = "sd_test", !.ms = pc.ms + 1]
  /\ UNCHANGED <<pirFlag, drawn, shown, isrRuns, sched, trace, dl, rot, paint>>

\* smartDelay(): pc.ms is millis() - start
smartDelay ==
  /\ \/ /\ pc.at = "sd_test"
        /\ pc' = IF pc.ms < FrameDelayMs THEN [pc EXCEPT !.at = "sd_flag"]
                 ELSE [pc EXCEPT !.at = "after"]
     \/ /\ pc.at = "sd_flag"
        /\ pc' = IF pirFlag THEN [pc EXCEPT !.at = "after"]
                 ELSE [pc EXCEPT !.at = "sd_delay"]
     \/ /\ pc.at = "sd_delay"
        /\ pc' = [pc EXCEPT !.at = "sd_test", !.ms = pc.ms + 1]
  /\ UNCHANGED <<pirFlag, drawn, shown, isrRuns, sched, trace, dl, rot, paint>>

handlePir ==
  /\ \/ /\ pc.at = "hp_test"
        /\ pc' = IF ~pirFlag THEN ReturnFromHandlePir
                 ELSE [pc EXCEPT !.at = "hp_clear"]
        /\ UNCHANGED pirFlag
     \/ /\ pc.at = "hp_clear"
        /\ pirFlag' = FALSE
        /\ pc' = [pc EXCEPT !.at = "gb_draw", !.gi = 0, !.half = 0, !.k = 0]
     \/ /\ pc.at = "hp_delay"
        /\ pc' = ReturnFromHandlePir
        /\ UNCHANGED pirFlag
  /\ UNCHANGED <<drawn, shown, isrRuns, sched, trace, dl, rot, paint>>

ghostBlink ==
  /\ \/ /\ pc.at = "gb_draw"
        /\ drawn' = GhostFrame(pc.half)
        /\ pc' = [pc EXCEPT !.at = "gb_show", !.k = 0]
        /\ UNCHANGED shown
     \/ /\ pc.at = "gb_show"
        /\ shown' = [shown EXCEPT ![GhostFaceOrder[pc.k + 1]] = drawn]
        /\ pc' = IF pc.k < FACES - 1 THEN [pc EXCEPT !.k = pc.k + 1]
                 ELSE [pc EXCEPT !.at = "gb_delay", !.k = 0]
        /\ UNCHANGED drawn
     \/ /\ pc.at = "gb_delay"
        /\ pc' = IF pc.half = 0 THEN [pc EXCEPT !.at = "gb_draw", !.half = 1]
                 ELSE IF pc.gi < GhostReps - 1
                      THEN [pc EXCEPT !.at = "gb_draw", !.half = 0, !.gi = pc.gi + 1]
                      ELSE [pc EXCEPT !.at = "hp_delay", !.half = 0, !.gi = 0]
        /\ UNCHANGED <<drawn, shown>>
  /\ UNCHANGED <<pirFlag, isrRuns, sched, trace, dl, rot, paint>>

\* one statement of the main program
Main == loopBlocking \/ smartDelay \/ handlePir \/ ghostBlink

NextIsr == onPirRise \/ Main

SpecIsr == InitIsr /\ [][NextIsr]_vars

\* the main program keeps running, whatever the interrupts do
SpecIsrFair == SpecIsr /\ WF_vars(Main)

----------------------------------------------------------------------------
(* Properties *)

PresenceRises == ~presence /\ presence'

BodyDraws(ev) == {i \in DOMAIN ev : ev[i].op = "draw" /\ ev[i].kind = "body"}
GhostDraws(ev) == {i \in DOMAIN ev : ev[i].op = "draw" /\ ev[i].kind = "ghost"}

\* C1 as stated: a presence rising edge during an active blink leaves
\* blink.step, blink.nextAt and blink.stopAt as they were.
C1_RisingLeavesBlinkAlone ==
  [][(blink.active /\ PresenceRises)
       => /\ blink'.step = blink.step
          /\ blink'.nextAt = blink.nextAt
          /\ blink'.stopAt = blink.stopAt]_vars

\* C1 as amended: a presence rising edge during an active blink restarts it:
\* the step is reset and the first ghost frame rendered again in that tick
\* (step 1 at the end of the tick, next frame one period later), and the stop
\* time becomes now + BLINK_DURATION_MS, counted from this latest rising edge.
C1_RisingRestartsBlink ==
  [][(blink.active /\ PresenceRises)
       => /\ blink'.active
          /\ blink'.step = 1
          /\ alertFrames' = 1
          /\ blink'.nextAt = Add32(clock, BLINK_PERIOD_MS)
          /\ blink'.stopAt = Add32(clock, BLINK_DURATION_MS)]_vars

\* a blink started at 0 was restarted by the rising edge of the tick at 1500
C1_Witness ==
  /\ tick.wasActive /\ tick.rising
  /\ blink.active
  /\ blink.stopAt = U32(1500 + BLINK_DURATION_MS)

\* C2: no body frame is drawn at a point of loop() where blink.active is
\* true, and a tick that ends with the blink active has drawn no body frame.
C2_NoBodyFrameWhileActive ==
  /\ \A i \in BodyDraws(tick.ev) : ~tick.ev[i].active
  /\ blink.active => BodyDraws(tick.ev) = {}

\* a tick inside the blink window, not the one of the rising edge, rendered a
\* ghost frame: at least one period has passed since the rising edge, so
\* body.nextAt was due as well, and no body frame was drawn
C2_Witness ==
  /\ tick.wasActive /\ ~tick.rising /\ blink.active
  /\ GhostDraws(tick.ev) # {}
  /\ BodyDraws(tick.ev) = {}

\* C3 as stated: a blink started at t=0 and not re-triggered, with loop() run
\* at every millisecond, has rendered exactly 30 ghost frames when the tick at
\* t=3000 is over, and the blink is then inactive.
C3_ThirtyFrames ==
  (risings = 1 /\ blink.stopAt = U32(BLINK_DURATION_MS) /\ elapsed > BLINK_DURATION_MS)
    => (alertFrames = 30 /\ ~blink.active)

\* C4 as stated: a tick that starts with the blink active and its stop time
\* reached ends with the blink inactive, whatever the sensor reads.
C4_StopsWhenDue ==
  [][(blink.active /\ IsDue(clock, blink.stopAt)) => ~blink'.active]_vars

\* C4 as amended: a tick that starts with the blink active and its stop time
\* reached, and on which presence does not rise, ends with the blink inactive,
\* whatever the sensor reads.
C4_StopsWhenDueUnlessRising ==
  [][(blink.active /\ IsDue(clock, blink.stopAt) /\ ~PresenceRises)
       => ~blink'.active]_vars

\* the blink has just been stopped while the sensor still shows presence
C4_Witness ==
  /\ tick.wasActive /\ ~tick.rising
  /\ ~blink.active
  /\ presence /\ tick.motionVal >= MOTION_TH

\* C5: from an inactive blink, a tick ends with the blink active if and only
\* if presence was false before and is true after the hysteresis step of that
\* tick (not on a falling edge, not on a tick where presence holds its level).
C5_ActivatesExactlyOnRisingEdge ==
  [][~blink.active => (blink'.active <=> PresenceRises)]_vars

\* the blink has just been activated from idle by a rising edge
C5_Witness ==
  /\ tick.rising /\ ~tick.wasActive /\ ~tick.wasPresent
  /\ blink.active /\ presence

PrevPresence(i) == IF i = 1 THEN FALSE ELSE trace[i - 1].presence

\* C6: over every sequence of readings, the rising-edge block is taken on a
\* sample if and only if the reading is >= TH_ON and presence was false before
\* it, and between two samples that take it presence has fallen.
C6_RisingEdgeReports ==
  /\ \A i \in DOMAIN trace :
       trace[i].rising <=> (trace[i].motionVal >= MOTION_TH /\ ~PrevPresence(i))
  /\ \A i, j \in DOMAIN trace :
       (i < j /\ trace[i].rising /\ trace[j].rising)
         => \E k \in (i + 1)..(j - 1) : trace[k].falling

\* two rising edges were reported, with a falling edge between them
C6_Witness ==
  \E i, j \in DOMAIN trace :
    /\ i < j /\ trace[i].rising /\ trace[j].rising
    /\ \E k \in (i + 1)..(j - 1) : trace[k].falling

TraceReadings == [i \in DOMAIN trace |-> trace[i].motionVal]
TracePresence == [i \in DOMAIN trace |-> trace[i].presence]

\* the two-threshold rule, with TH_ON = 100 and TH_OFF = 67
TwoThresholds ==
  \A i \in DOMAIN trace :
    /\ (~PrevPresence(i) /\ trace[i].presence) => trace[i].motionVal >= 100
    /\ (PrevPresence(i) /\ ~trace[i].presence) => trace[i].motionVal <= 67
    /\ (trace[i].motionVal > 67 /\ trace[i].motionVal < 100)
         => trace[i].presence = PrevPresence(i)

\* C7 as stated: presence changes only by the two-threshold rule, and the
\* readings 50, 100, 80, 67, 66 give presence F, T, T, T, F with a rising edge
\* at sample 2 only and a falling edge at sample 5 only.
C7_ScenarioFallsAtFifth ==
  /\ TwoThresholds
  /\ TraceReadings = <<50, 100, 80, 67, 66>>
       => /\ TracePresence = <<FALSE, TRUE, TRUE, TRUE, FALSE>>
          /\ {i \in DOMAIN trace : trace[i].rising} = {2}
          /\ {i \in DOMAIN trace : trace[i].falling} = {5}

\* C7 as amended: presence changes only by the two-threshold rule, and the
\* readings 50, 100, 80, 67, 66 give presence F, T, T, F, F with a rising edge
\* at sample 2 only and a falling edge at sample 4 only (67 <= TH_OFF).
C7_ScenarioFallsAtFourth ==
  /\ TwoThresholds
  /\ TraceReadings = <<50, 100, 80, 67, 66>>
       => /\ TracePresence = <<FALSE, TRUE, TRUE, FALSE, FALSE>>
          /\ {i \in DOMAIN trace : trace[i].rising} = {2}
          /\ {i \in DOMAIN trace : trace[i].falling} = {4}

\* the five readings of the scenario have been sampled
C7_Witness == TraceReadings = <<50, 100, 80, 67, 66>> /\ ~presence

\* C8: for every configured on-threshold >= 1 the off-threshold loop() derives
\* is at least 0 and strictly below the on-threshold.
C8_OffThresholdBelowOn ==
  tick.ran => (tick.thOn = motionTh /\ 0 <= tick.thOff /\ tick.thOff < tick.thOn)

\* the smallest threshold: the minimum gap exceeds it and TH_OFF is floored at 0
C8_Witness == tick.ran /\ motionTh = 1 /\ tick.thOff = 0 /\ presence

DeadlineL == LAdd(dl.setAt, dl.ahead)

\* C9 as stated: for a deadline set less than 2^31 ms ahead, the test is true
\* exactly when now is at or after the deadline in logical time.
C9_DueExactlyWhenReached ==
  dl.tests > 0 => (dl.result <=> LGeq(dl.now, DeadlineL))

\* C9 as amended: for a deadline set less than 2^31 ms ahead and tested less
\* than 2^31 ms after it, the test is true exactly when now is at or after the
\* deadline in logical time, also across the wrap of the clock to zero.
C9_DueExactlyWhenReachedInRange ==
  (dl.tests > 0 /\ ~LGeq(dl.now, Far(DeadlineL)))
    => (dl.result <=> LGeq(dl.now, DeadlineL))

\* a deadline below the maximum clock value found due after the clock wrapped
C9_Witness ==
  /\ dl.tests > 0
  /\ DeadlineL[1] = Half - 1
  /\ dl.now[1] = Half
  /\ dl.result

\* C10: the pair selector flips in a body tick exactly when that tick is the
\* 10th since the start or since the last flip, the step toggling at every
\* body tick, so that a pair phase is 5 round trips of the step.
C10_FlipEveryTenTicks ==
  [][body' # body
       => /\ body'.stepInPair = 1 - body.stepInPair
          /\ (body'.pair # body.pair) <=> (ticksInPair = 2 * BODY_REPS_PER_PAIR - 1)
          /\ ticksInPair' = 2 * body'.repsInPair + body'.stepInPair]_vars

\* the pair selector has just flipped back to 0, 10 body ticks after it flipped to 1
C10_Witness ==
  /\ BodyDraws(tick.ev) # {}
  /\ body.pair = 0 /\ ticksInPair = 0
  /\ elapsed = 20 * BODY_PERIOD_MS + 1

\* C11: rotateColors() turns the assignment c0, c1, c2, c3 of FRONT, RIGHT,
\* BACK, LEFT into c3, c0, c1, c2; Red, Magenta, Orange, Cyan becomes Cyan,
\* Red, Magenta, Orange.
C11_RotationIsCircularShift ==
  rot.n > 0
    => /\ \A f \in 1..FACES :
            rot.colors[f] = rot.before[IF f = 1 THEN FACES ELSE f - 1]
       /\ rot.before = <<"Red", "Magenta", "Orange", "Cyan">>
            => rot.colors = <<"Cyan", "Red", "Magenta", "Orange">>

\* the initial assignment has been rotated once
C11_Witness ==
  /\ rot.n = 1
  /\ rot.before = <<"Red", "Magenta", "Orange", "Cyan">>
  /\ rot.colors = <<"Cyan", "Red", "Magenta", "Orange">>

BothRotated == lastRot.riseAt >= 0 /\ lastRot.idleAt >= 0

\* C12 as stated: a rotation by the idle timer and a rotation by a rising edge
\* are never less than COLOR_ROTATE_IDLE_MS apart, whichever comes first.
C12_RotationsNeverClose ==
  BothRotated =>
    IF lastRot.idleAt >= lastRot.riseAt
    THEN lastRot.idleAt - lastRot.riseAt >= COLOR_ROTATE_IDLE_MS
    ELSE lastRot.riseAt - lastRot.idleAt >= COLOR_ROTATE_IDLE_MS

\* C12 as amended: a rotation by the idle timer is never applied on the tick
\* of a rising edge nor less than COLOR_ROTATE_IDLE_MS after the last rising
\* edge (a rising edge may follow an idle rotation at any interval).
C12_NoIdleRotationSoonAfterRising ==
  [][tick'.idleRotated
       => /\ ~PresenceRises
          /\ lastRot.riseAt >= 0
               => elapsed - lastRot.riseAt >= COLOR_ROTATE_IDLE_MS]_vars

\* the idle timer has just rotated the colors, a full interval after a rising edge
C12_Witness ==
  /\ tick.idleRotated
  /\ lastRot.riseAt >= 0
  /\ lastRot.idleAt >= lastRot.riseAt + COLOR_ROTATE_IDLE_MS

\* C13: on a tick where the idle timer rotates the colors, presence is false.
C13_IdleRotationOnlyWhenAbsent == tick.idleRotated => ~presence

ShowOn(f) == [op |-> "show", face |-> f]

\* every ghost draw of ev is followed by one show per face in ghostOrder, the
\* body draws of ev come as four draw/show pairs in the order RIGHT, LEFT,
\* BACK, FRONT, and ev holds no other show
PublishedInOrder(ev, ghostOrder) ==
  LET gd == GhostDraws(ev)
      bd == BodyDraws(ev)
      shows == {i \in DOMAIN ev : ev[i].op = "show"}
      k == Len(ev) - 2 * FACES
      bodyOrder == <<RIGHT, LEFT, BACK, FRONT>>
  IN  /\ \A i \in gd :
           /\ i + FACES <= Len(ev)
           /\ \A j \in 1..FACES : ev[i + j] = ShowOn(ghostOrder[j])
      /\ bd # {} =>
           /\ k >= 0
           /\ bd = {k + 2 * j - 1 : j \in 1..FACES}
           /\ \A j \in 1..FACES : ev[k + 2 * j] = ShowOn(bodyOrder[j])
      /\ Cardinality(shows) = FACES * Cardinality(gd) + Cardinality(bd)

\* C14 as stated: every rendered frame is pushed once to each face, a ghost
\* frame in the order FRONT, RIGHT, BACK, LEFT and the body frames in the order
\* RIGHT, LEFT, BACK, FRONT.
C14_GhostOrderBackBeforeLeft == PublishedInOrder(tick.ev, <<FRONT, RIGHT, BACK, LEFT>>)

\* C14 as amended: every rendered frame is pushed once to each face, a ghost
\* frame in the order FRONT, RIGHT, LEFT, BACK and the body frames in the order
\* RIGHT, LEFT, BACK, FRONT.
C14_GhostOrderLeftBeforeBack == PublishedInOrder(tick.ev, <<FRONT, RIGHT, LEFT, BACK>>)

\* the tick that stops the blink has pushed a ghost frame and the body frames
C14_Witness ==
  /\ GhostDraws(tick.ev) # {}
  /\ BodyDraws(tick.ev) # {}

\* the color drawFrame() leaves at position j: black outside the three
\* tables, otherwise the color of the last of A, B, C that holds j
ExpectedAt(j) ==
  IF j \in Range(paint.C) THEN paint.cC
  ELSE IF j \in Range(paint.B) THEN paint.cB
  ELSE IF j \in Range(paint.A) THEN paint.cA
  ELSE "Black"

\* C15: after drawFrame(A, cA, B, cB, C, cC) every position of the buffer that
\* is in none of the tables is black, and every other position holds the color
\* of the last of A, B, C that contains it.
C15_BlackElseLastTableWins ==
  paint.n > 0 => \A j \in LedRange : paint.leds[j] = ExpectedAt(j)

\* a position in all three tables, one in A and B only, and one in no table,
\* each table painted in another color than the one applied before it
C15_Witness ==
  /\ paint.n > 0
  /\ paint.cA # paint.cB /\ paint.cB # paint.cC
  /\ \E j \in Range(paint.A) \cap Range(paint.B) \cap Range(paint.C) :
       paint.leds[j] = paint.cC
  /\ \E j \in (Range(paint.A) \cap Range(paint.B) \cap LedRange) \ Range(paint.C) :
       paint.leds[j] = paint.cB
  /\ \E j \in LedRange \ (Range(paint.A) \cup Range(paint.B) \cup Range(paint.C)) :
       paint.leds[j] = "Black"

\* C16: the buffer drawFrame() leaves is the one it leaves when started on an
\* all-black buffer, whatever the buffer held before; drawing the same
\* arguments again leaves the same buffer.
C16_DependsOnArgumentsOnly ==
  [][paint'.n > paint.n
       => /\ paint'.leds = drawFrame(NoPaint.leds, paint'.A, paint'.cA, paint'.B,
                                     paint'.cB, paint'.C, paint'.cC)
          /\ paint'.same => paint'.leds = paint.leds]_vars

\* a frame drawn over colored pixels that lie in none of its tables, and then
\* drawn a second time with the same arguments
C16_Witness ==
  /\ paint.n = 2
  /\ paint.stale
  /\ paint.same
  /\ \E j \in LedRange : paint.leds[j] = "Black"

\* C17: colorList() writes no position for a table entry >= NUM_LEDS_PER_FACE
\* (the buffer keeps its positions 0..255), and the in-range entries of the
\* same table are painted: each holds the color of the last table it is in.
C17_OutOfRangeIgnored ==
  paint.n > 0
    => /\ DOMAIN paint.leds = LedRange
       /\ \A j \in Range(paint.C) \cap LedRange : paint.leds[j] = paint.cC
       /\ \A j \in (Range(paint.B) \cap LedRange) \ Range(paint.C) :
            paint.leds[j] = paint.cB
       /\ \A j \in (Range(paint.A) \cap LedRange) \ (Range(paint.B) \cup Range(paint.C)) :
            paint.leds[j] = paint.cA

\* the last table holds an entry beyond the buffer followed by an entry inside
\* it, which is painted
C17_Witness ==
  /\ paint.n > 0
  /\ paint.cC # "Black"
  /\ \E i \in DOMAIN paint.C : \E k \in DOMAIN paint.C :
       /\ i < k
       /\ paint.C[i] >= NUM_LEDS_PER_FACE
       /\ paint.C[k] < NUM_LEDS_PER_FACE
       /\ paint.leds[paint.C[k]] = paint.cC

\* C18: a run of the interrupt handler sets pirFlag and leaves the buffer,
\* what every face shows and the position of the main program as they were.
C18_HandlerOnlySetsFlag ==
  [][isrRuns' # isrRuns => pirFlag' /\ UNCHANGED <<pc, drawn, shown>>]_vars

\* the handler has run while ghostBlink() was pushing a ghost frame
C18_Witness ==
  /\ pirFlag
  /\ pc.at = "gb_show" /\ pc.k = 2
  /\ drawn = GhostFrame(1)
  /\ shown[FRONT] = GhostFrame(1) /\ shown[BACK] = GhostFrame(0)

InGhostBlink == pc.at \in GhostBlinkLabels

\* handlePir() has just cleared the flag and ghostBlink() is at its first statement
GhostBlinkStarts == ~pirFlag /\ pc.at = "gb_draw" /\ pc.gi = 0 /\ pc.half = 0

\* loop() has drawn a body frame and is about to push it
BodyFrameDrawn == pc.at = "show" /\ drawn.kind = "body"

\* C19: whenever pirFlag is set the main program eventually clears it and
\* starts ghostBlink(); whenever ghostBlink() runs the main program eventually
\* draws a body frame again; and once pirFlag is set smartDelay() starts no
\* further delay(1).
C19_InterruptNeverLost ==
  /\ pirFlag ~> GhostBlinkStarts
  /\ InGhostBlink ~> BodyFrameDrawn
  /\ [][(pirFlag /\ pc.at \in {"sd_test", "sd_flag"}) => pc'.at # "sd_delay"]_vars

\* ghostBlink() runs after smartDelay() has returned with the flag set, and the
\* handler has run again meanwhile
C19_Witness ==
  /\ InGhostBlink
  /\ pc.ret = "return"
  /\ pirFlag

\* C20: on a tick where presence rises the colors are rotated exactly once and
\* nextColorRotateAt becomes now + COLOR_ROTATE_IDLE_MS, the idle timer does
\* not rotate on that tick, and when it rotates on a later tick the last
\* rising edge is at least COLOR_ROTATE_IDLE_MS back.
C20_RisingRotatesOnceAndResetsTimer ==
  [][/\ PresenceRises
          => /\ bodyColors' = <<bodyColors[4], bodyColors[1], bodyColors[2], bodyColors[3]>>
             /\ nextColorRotateAt' = Add32(clock, COLOR_ROTATE_IDLE_MS)
             /\ ~tick'.idleRotated
     /\ (tick'.idleRotated /\ lastRot'.riseAt >= 0)
          => elapsed - lastRot'.riseAt >= COLOR_ROTATE_IDLE_MS]_vars

\* presence rose on the very tick on which the idle rotation was due, and the
\* colors have been rotated once, by the rising edge
C20_Witness ==
  /\ tick.rising /\ ~tick.idleRotated
  /\ lastRot = [riseAt |-> COLOR_ROTATE_IDLE_MS, idleAt |-> -1]
  /\ bodyColors = <<"Cyan", "Red", "Magenta", "Orange">>
  /\ nextColorRotateAt = U32(2 * COLOR_ROTATE_IDLE_MS)

\* the pushes of ev that are not the four pushes following a ghost draw
BodyShows(ev) ==
  {i \in DOMAIN ev : /\ ev[i].op = "show"
                      /\ \A j \in GhostDraws(ev) : i < j \/ i > j + FACES}

\* C21: on a tick that steps the body animation, every push of a body frame to
\* a face f comes immediately after a draw of the body frame of index
\* 2 * pair + stepInPair in the color bodyColors[f], the same index for the
\* four faces, and each of the four faces is pushed to.
C21_EachFaceItsOwnColor ==
  LET ev == tick.ev
      g == 2 * body.pair + body.stepInPair
  IN  BodyDraws(ev) # {}
        => /\ {ev[i].face : i \in BodyShows(ev)} = 0..(FACES - 1)
           /\ \A i \in BodyShows(ev) :
                /\ i > 1
                /\ ev[i - 1].op = "draw"
                /\ ev[i - 1].kind = "body"
                /\ ev[i - 1].frame = BodyFrameName(g)
                /\ ev[i - 1].color = bodyColors[ev[i].face + 1]

\* a body tick of the second pair after the colors have been rotated
C21_Witness ==
  /\ BodyDraws(tick.ev) # {}
  /\ bodyColors # InitColors
  /\ body.pair = 1 /\ body.stepInPair = 1

\* the assignments obtained from c by moving every color k faces on
CyclicShifts(c) ==
  {[f \in 1..FACES |-> c[((f - 1 + k) % FACES) + 1]] : k \in 0..(FACES - 1)}

\* C22: bodyColors is always a cyclic shift of Red, Magenta, Orange, Cyan, the
\* four faces hold four different colors, four calls of rotateColors() give
\* the same assignment back, and a tick either leaves bodyColors alone or
\* moves every color one face on.
C22_ColorsOnlyRotate ==
  /\ [](/\ bodyColors \in CyclicShifts(<<"Red", "Magenta", "Orange", "Cyan">>)
        /\ Cardinality({bodyColors[f] : f \in 1..FACES}) = FACES
        /\ rotateColors(rotateColors(rotateColors(rotateColors(bodyColors))))
             = bodyColors)
  /\ [][\/ bodyColors' = bodyColors
        \/ bodyColors' = <<bodyColors[4], bodyColors[1], bodyColors[2],
                           bodyColors[3]>>]_vars

\* the idle timer has rotated the colors back to the initial assignment after
\* rising edges had rotated them
C22_Witness ==
  /\ tick.idleRotated
  /\ lastRot.riseAt >= 0
  /\ bodyColors = <<"Red", "Magenta", "Orange", "Cyan">>

\* the ghost frame of the last tick differs from the ghost frame before it
GhostFrameChanged ==
  /\ lastGhost # "none"
  /\ \A i \in GhostDraws(tick'.ev) : tick'.ev[i].frame # lastGhost

\* C23 as stated: blink.step stays in 0..BLINK_STEPS_TOTAL-1, and as long as
\* the blink stays active every ghost frame differs from the ghost frame
\* rendered before it.
C23_AlternatesWhileActive ==
  /\ [](blink.step \in 0..(BLINK_STEPS_TOTAL - 1))
  /\ [][(blink.active /\ GhostDraws(tick'.ev) # {}) => GhostFrameChanged]_vars

\* C23 as amended: blink.step stays in 0..BLINK_STEPS_TOTAL-1; a tick with a
\* rising edge renders dead_fantom_1, whatever was rendered before it, and
\* every other ghost frame differs from the ghost frame rendered before it,
\* also when the step has wrapped from 17 to 0.
C23_AlternatesSinceRisingEdge ==
  /\ [](blink.step \in 0..(BLINK_STEPS_TOTAL - 1))
  /\ [][GhostDraws(tick'.ev) # {}
         => IF PresenceRises
            THEN \A i \in GhostDraws(tick'.ev) : tick'.ev[i].frame = "dead_fantom_1"
            ELSE GhostFrameChanged]_vars

\* the nineteenth ghost frame since the rising edge has been rendered: the
\* step has wrapped and the frame is dead_fantom_1 again
C23_Witness ==
  /\ GhostDraws(tick.ev) # {}
  /\ ~tick.rising
  /\ alertFrames = BLINK_STEPS_TOTAL + 1
  /\ blink.step = 1
  /\ lastGhost = "dead_fantom_1"

\* C24: a tick on which presence rises draws the ghost frame of step 0,
\* dead_fantom_1, and pushes it to each of the four faces before it ends; the
\* step is 1 when the tick is over.
C24_FirstGhostFrameOnRisingTick ==
  LET ev == tick.ev
  IN  tick.rising
        => /\ Len(ev) >= 1 + FACES
           /\ ev[1].op = "draw" /\ ev[1].kind = "ghost"
           /\ ev[1].frame = "dead_fantom_1"
           /\ \A i \in 2..(1 + FACES) : ev[i].op = "show"
           /\ {ev[i].face : i \in 2..(1 + FACES)} = 0..(FACES - 1)
           /\ blink.step = 1

\* presence rose half a blink after setup(), with no blink running, and the
\* tick rendered one ghost frame and nothing else
C24_Witness ==
  /\ tick.rising /\ ~tick.wasActive
  /\ lastRot.riseAt = 1500
  /\ Len(tick.ev) = 1 + FACES
  /\ lastGhost = "dead_fantom_1"

\* C25: a tick that ends with the blink active, that is, one that returned
\* inside the blink window, leaves body.pair, body.stepInPair, body.repsInPair
\* and body.nextAt as they were, and leaves bodyColors and nextColorRotateAt as
\* they were unless presence rose on it.
C25_BodyFrozenDuringAlert ==
  [][blink'.active
       => /\ body'.pair = body.pair
          /\ body'.stepInPair = body.stepInPair
          /\ body'.repsInPair = body.repsInPair
          /\ body'.nextAt = body.nextAt
          /\ ~PresenceRises => /\ bodyColors' = bodyColors
                               /\ nextColorRotateAt' = nextColorRotateAt]_vars

\* a tick inside the blink window, after the rising edge, at a time when the
\* body step set up by setup() is long overdue
C25_Witness ==
  /\ blink.active
  /\ tick.ran /\ tick.wasActive /\ ~tick.rising
  /\ lastRot.riseAt >= 1500
  /\ body.nextAt = U32(BODY_PERIOD_MS)

=============================================================================
